---------------------------- MODULE Spec2Model ----------------------------
(***************************************************************************)
(* Istanbul/QBFT validator-management layer of go-ethereum (quorum fork):  *)
(*   - consensus/istanbul/config.go : ProposerPolicy registry, Config and  *)
(*     the transition resolver (GetConfig, GetValidatorSelectionMode,      *)
(*     GetValidatorsAt, Get2FPlus1Enabled, getTransitionValue)             *)
(*   - consensus/istanbul/types.go  : View, Preprepare, Subject            *)
(*   - params (Transition record)                                          *)
(*                                                                         *)
(* Go pointers and slices that may be nil are sequences: <<>> is nil and   *)
(* <<x>> is a non-nil pointer to x (for a slice, <<s>> holds the slice s). *)
(* A uint64 whose arithmetic can overflow is a sequence of four 16-bit     *)
(* limbs, most significant first, so that the product below is the exact   *)
(* 64-bit product.                                                         *)
(***************************************************************************)
EXTENDS Integers, Sequences, FiniteSets, TLC

VARIABLES
    c,            \* the Config the resolver methods are called on
    resolved,     \* the last resolver call: method, argument, outcome
    By,           \* ProposerPolicy.By: the active comparison function
    registry,     \* ProposerPolicy.registry (nil is the empty sequence)
    registryCap,  \* capacity of the registry's backing array
    registryMU,   \* the goroutine holding ProposerPolicy.registryMU, 0 if free
    sortedBy,     \* per validator set: the comparison function its list was last sorted with
    pc,           \* per goroutine: its position in the method it runs
    frame,        \* per goroutine: arguments and locals of that method
    calls,        \* number of ProposerPolicy calls started
    sortedSince,  \* history, per goroutine: sets sorted since its Use assigned By
    useRet,       \* history, per goroutine: what held when its last Use returned
    acquired,     \* history: sets of the RegisterValidatorSet calls that took the
                  \* lock since the last ClearRegistry did, in the order they took it
    views,        \* three Views, the operands of View.Cmp
    cmp,          \* the results of View.Cmp on them
    msg,          \* the envelope value a sender encodes
    wire,         \* the bytes on the wire
    target,       \* the envelope value a receiver decodes into
    before,       \* history: the target as it was when DecodeRLP was called
    err,          \* the error DecodeRLP returned ("" for nil)
    phase,        \* where the message is: start, encoded, damaged, decoded
    source,       \* the ProposerPolicy that is persisted
    tomlData,     \* what MarshalTOML returned for it (nil before the call)
    restored,     \* the ProposerPolicy UnmarshalTOML loads it into
    fresh,        \* NewProposerPolicy(source.Id), given the same calls as restored
    stage,        \* idle, built, marshalled, restored
    failed,       \* a call on the restored policy panicked
    ops           \* number of calls made in the current stage

resolverVars == <<c, resolved>>

policyVars ==
    <<By, registry, registryCap, registryMU, sortedBy, pc, frame, calls, sortedSince, useRet,
      acquired>>

viewVars == <<views, cmp>>

wireVars == <<msg, wire, target, before, err, phase>>

restoreVars == <<source, tomlData, restored, fresh, stage, failed, ops>>

vars == <<c, resolved, By, registry, registryCap, registryMU, sortedBy, pc, frame, calls,
          sortedSince, useRet, acquired, views, cmp, msg, wire, target, before, err, phase,
          source, tomlData, restored, fresh, stage, failed, ops>>

----------------------------------------------------------------------------
(* Go values *)

Nil == <<>>

Ptr(x) == <<x>>

Deref(p) == p[1]

\* big.Int.Cmp on two non-nil big integers
BigCmp(x, y) == IF x < y THEN -1 ELSE IF x > y THEN 1 ELSE 0

----------------------------------------------------------------------------
(* uint64 as four 16-bit limbs *)

U64Bits == 64

LimbBase == 2 ^ 16

U64Limbs == U64Bits \div 16

U64(n) == <<0, 0, n \div LimbBase, n % LimbBase>>

\* the limbs of x * k, least significant limb first carried upwards; the
\* result has one more limb than x: the carry out of the top limb
MulLimbs(x, k) ==
    LET n == Len(x)
        \* carry[i]: the carry into limb position i (1 = most significant),
        \* carry[n + 1] = 0 is the carry into the least significant limb
        carry[i \in 1..(n + 1)] ==
            IF i = n + 1 THEN 0 ELSE (x[i] * k + carry[i + 1]) \div LimbBase
    IN  <<carry[1]>> \o [i \in 1..n |-> (x[i] * k + carry[i + 1]) % LimbBase]

\* Go's uint64 product x * k: the low 64 bits
U64Mul(x, k) == SubSeq(MulLimbs(x, k), 2, U64Limbs + 1)

\* the mathematical product, five limbs
ExactMul(x, k) == MulLimbs(x, k)

\* a uint64 seen as a five-limb number
Widen(x) == <<0>> \o x

U64Zero == U64(0)

----------------------------------------------------------------------------
(* params.Transition and istanbul.Config *)

BlockHeaderMode == "blockheader"

ContractMode == "contract"

\* a transition that sets nothing
EmptyTransition ==
    [ Block                    |-> 0,
      EpochLength              |-> 0,
      BlockPeriodSeconds       |-> 0,
      EmptyBlockPeriodSeconds  |-> Nil,
      RequestTimeoutSeconds    |-> U64Zero,
      Validators               |-> <<>>,
      ValidatorSelectionMode   |-> "",
      TwoFPlusOneEnabled       |-> Nil,
      BlockReward              |-> Nil,
      BeneficiaryMode          |-> Nil,
      MiningBeneficiary        |-> Nil,
      MaxRequestTimeoutSeconds |-> Nil ]

DefaultConfig ==
    [ RequestTimeout           |-> U64(10000),
      BlockPeriod              |-> 5,
      EmptyBlockPeriod         |-> 0,
      Epoch                    |-> 30000,
      Ceil2Nby3Block           |-> 0,
      AllowedFutureBlockTime   |-> 0,
      BeneficiaryMode          |-> Nil,
      BlockReward              |-> Nil,
      MiningBeneficiary        |-> Nil,
      Validators               |-> <<>>,
      ValidatorSelectionMode   |-> Nil,
      MaxRequestTimeoutSeconds |-> 0,
      Transitions              |-> Nil ]

----------------------------------------------------------------------------
(* the resolver *)

\* outcome of a call: a returned value, or a run-time panic
Returned(v) == [panicked |-> FALSE, val |-> <<v>>]

Panicked == [panicked |-> TRUE, val |-> <<>>]

\* the number of iterations of the loop
\*   for i := 0; i < len(ts) && ts[i].Block.Cmp(num) <= 0; i++
LoopCount(ts, h) ==
    LET stops == {i \in 1..Len(ts) : ~(BigCmp(ts[i].Block, h) <= 0)}
    IN  IF stops = {} THEN Len(ts)
        ELSE (CHOOSE i \in stops : \A j \in stops : i <= j) - 1

\* every record at or below the height is handed over, the ones after a
\* higher record too
getTransitionValueSkipping(cfg, num) ==
    IF num /= Nil /\ cfg.Transitions /= Nil
    THEN SelectSeq(Deref(cfg.Transitions), LAMBDA t : BigCmp(t.Block, Deref(num)) <= 0)
    ELSE <<>>

\* the transitions handed to the callback, in call order; each caller below
\* runs its callback over them one after the other, on its captured variable
getTransitionValue(cfg, num) ==
    IF num /= Nil /\ cfg.Transitions /= Nil
    THEN SubSeq(Deref(cfg.Transitions), 1, LoopCount(Deref(cfg.Transitions), Deref(num)))
    ELSE <<>>

\* the callback of GetConfig
SetRequestTimeout(nc, t) ==
    IF t.RequestTimeoutSeconds /= U64Zero
    THEN [nc EXCEPT !.RequestTimeout = U64Mul(t.RequestTimeoutSeconds, 1000)]
    ELSE nc

\* a full-record replace of the timing fields: an absent (zero) EpochLength
\* resets Epoch instead of inheriting it
ApplyTransitionResetting(nc, t) ==
    LET c1 == SetRequestTimeout(nc, t)
        c2 == [c1 EXCEPT !.Epoch = t.EpochLength]
        c3 == IF t.BlockPeriodSeconds /= 0
              THEN [c2 EXCEPT !.BlockPeriod = t.BlockPeriodSeconds] ELSE c2
        c4 == IF t.EmptyBlockPeriodSeconds /= Nil
              THEN [c3 EXCEPT !.EmptyBlockPeriod = Deref(t.EmptyBlockPeriodSeconds)] ELSE c3
        c5 == IF t.BeneficiaryMode /= Nil
              THEN [c4 EXCEPT !.BeneficiaryMode = t.BeneficiaryMode] ELSE c4
        c6 == IF t.BlockReward /= Nil
              THEN [c5 EXCEPT !.BlockReward = t.BlockReward] ELSE c5
        c7 == IF t.MiningBeneficiary /= Nil
              THEN [c6 EXCEPT !.MiningBeneficiary = t.MiningBeneficiary] ELSE c6
        c8 == IF t.ValidatorSelectionMode /= ""
              THEN [c7 EXCEPT !.ValidatorSelectionMode = Ptr(t.ValidatorSelectionMode)] ELSE c7
        c9 == IF Len(t.Validators) > 0
              THEN [c8 EXCEPT !.Validators = t.Validators] ELSE c8
    IN  IF t.MaxRequestTimeoutSeconds /= Nil
        THEN [c9 EXCEPT !.MaxRequestTimeoutSeconds = Deref(t.MaxRequestTimeoutSeconds)] ELSE c9

ApplyTransition(nc, t) ==
    LET c1  == SetRequestTimeout(nc, t)
        c2  == IF t.EpochLength /= 0
               THEN [c1 EXCEPT !.Epoch = t.EpochLength] ELSE c1
        c3  == IF t.BlockPeriodSeconds /= 0
               THEN [c2 EXCEPT !.BlockPeriod = t.BlockPeriodSeconds] ELSE c2
        c4  == IF t.EmptyBlockPeriodSeconds /= Nil
               THEN [c3 EXCEPT !.EmptyBlockPeriod = Deref(t.EmptyBlockPeriodSeconds)] ELSE c3
        c5  == IF t.BeneficiaryMode /= Nil
               THEN [c4 EXCEPT !.BeneficiaryMode = t.BeneficiaryMode] ELSE c4
        c6  == IF t.BlockReward /= Nil
               THEN [c5 EXCEPT !.BlockReward = t.BlockReward] ELSE c5
        c7  == IF t.MiningBeneficiary /= Nil
               THEN [c6 EXCEPT !.MiningBeneficiary = t.MiningBeneficiary] ELSE c6
        c8  == IF t.ValidatorSelectionMode /= ""
               THEN [c7 EXCEPT !.ValidatorSelectionMode = Ptr(t.ValidatorSelectionMode)] ELSE c7
        c9  == IF Len(t.Validators) > 0
               THEN [c8 EXCEPT !.Validators = t.Validators] ELSE c8
        c10 == IF t.MaxRequestTimeoutSeconds /= Nil
               THEN [c9 EXCEPT !.MaxRequestTimeoutSeconds = Deref(t.MaxRequestTimeoutSeconds)] ELSE c9
    IN  c10

GetConfig(cfg, blockNumber) ==
    LET ts == getTransitionValue(cfg, blockNumber)
        newConfig[i \in 0..Len(ts)] ==
            IF i = 0 THEN cfg ELSE ApplyTransition(newConfig[i - 1], ts[i])
    IN  Returned(newConfig[Len(ts)])

\* the mode of every transition replaces the current one, an empty one too
SelectModeOverwriting(mode, t) == t.ValidatorSelectionMode

SelectMode(mode, t) ==
    IF t.ValidatorSelectionMode /= "" THEN t.ValidatorSelectionMode ELSE mode

GetValidatorSelectionMode(cfg, blockNumber) ==
    LET ts == getTransitionValue(cfg, blockNumber)
        mode[i \in 0..Len(ts)] ==
            IF i = 0
            THEN IF cfg.ValidatorSelectionMode /= Nil
                 THEN Deref(cfg.ValidatorSelectionMode) ELSE BlockHeaderMode
            ELSE SelectMode(mode[i - 1], ts[i])
    IN  Returned(mode[Len(ts)])

\* the latest record at or below the height, not the first one
GetValidatorsAtLatest(cfg, blockNumber) ==
    IF blockNumber = Nil THEN Panicked
    ELSE IF BigCmp(Deref(blockNumber), 0) = 0 /\ Len(cfg.Validators) > 0
         THEN Returned(cfg.Validators)
    ELSE LET ts == getTransitionValue(cfg, blockNumber) IN
         IF Len(ts) > 0 THEN Returned(ts[Len(ts)].Validators) ELSE Returned(<<>>)

GetValidatorsAt(cfg, blockNumber) ==
    \* line 206 calls blockNumber.Cmp before the nil test of line 210:
    \* (*big.Int)(nil).Cmp(non-nil) dereferences the nil receiver
    IF blockNumber = Nil THEN Panicked
    ELSE IF BigCmp(Deref(blockNumber), 0) = 0 /\ Len(cfg.Validators) > 0
         THEN Returned(cfg.Validators)
    ELSE IF blockNumber /= Nil /\ cfg.Transitions /= Nil
            \* the loop body returns in its first iteration
            /\ 0 < Len(Deref(cfg.Transitions))
            /\ BigCmp(Deref(cfg.Transitions)[1].Block, Deref(blockNumber)) = 0
         THEN Returned(Deref(cfg.Transitions)[1].Validators)
    ELSE Returned(<<>>)

Select2FPlus1(flag, t) ==
    IF t.TwoFPlusOneEnabled /= Nil THEN Deref(t.TwoFPlusOneEnabled) ELSE flag

Get2FPlus1EnabledSticky(cfg, blockNumber) ==
    Returned(\E i \in 1..Len(getTransitionValue(cfg, blockNumber)) :
                 /\ getTransitionValue(cfg, blockNumber)[i].TwoFPlusOneEnabled /= Nil
                 /\ Deref(getTransitionValue(cfg, blockNumber)[i].TwoFPlusOneEnabled))

Get2FPlus1Enabled(cfg, blockNumber) ==
    LET ts == getTransitionValue(cfg, blockNumber)
        twoFPlusOneEnabled[i \in 0..Len(ts)] ==
            IF i = 0 THEN FALSE ELSE Select2FPlus1(twoFPlusOneEnabled[i - 1], ts[i])
    IN  Returned(twoFPlusOneEnabled[Len(ts)])

\* ValidatorSet.F() and the quorum size the round engine derives from the
\* resolved quorum model
F(n) == (n - 1) \div 3

Ceil2Nby3(n) == (2 * n + 2) \div 3

QuorumSize(cfg, n, h) ==
    IF Deref(Get2FPlus1Enabled(cfg, Ptr(h)).val) \/ BigCmp(h, cfg.Ceil2Nby3Block) < 0
    THEN 2 * F(n) + 1
    ELSE Ceil2Nby3(n)

----------------------------------------------------------------------------
(* ProposerPolicy: the registry of validator sets and its mutex *)

MaxThreads == 2

MaxCalls == 3

MaxValSets == 2

MaxRegistry == 3

Threads == 1..MaxThreads

ValSets == 1..MaxValSets

\* ValidatorSortByString and ValidatorSortByByte
SortFuncs == {"ByString", "ByByte"}

NoFrame == [f |-> "ByString", valSet |-> 0, snap |-> <<>>, i |-> 0,
            pending |-> <<>>, pendingCap |-> 0, moved |-> FALSE]

NoRet == [returned |-> FALSE, byIsF |-> TRUE, resorted |-> TRUE]

\* NewProposerPolicy(id): By is ValidatorSortByString, the registry is nil
\* and the mutex is new; every validator set was sorted with that function
\* when it was built
InitPolicy ==
    /\ By = "ByString"
    /\ registry = <<>>
    /\ registryCap = 0
    /\ registryMU = 0
    /\ sortedBy = [s \in ValSets |-> "ByString"]
    /\ pc = [t \in Threads |-> "idle"]
    /\ frame = [t \in Threads |-> NoFrame]
    /\ calls = 0
    /\ sortedSince = [t \in Threads |-> {}]
    /\ useRet = [t \in Threads |-> NoRet]
    /\ acquired = <<>>

\* a fault ends the process: no goroutine runs after it; the Config is not
\* touched by the policy's methods
PolicyStep ==
    /\ \A t \in Threads : pc[t] /= "fault"
    /\ UNCHANGED <<resolverVars, viewVars, wireVars, restoreVars>>

\* a goroutine is between the assignment of By and the return of Use
InUse(t) == pc[t] \in {"use_range", "use_sort"}

\* a goroutine has begun and not finished the store of a new slice header
\* into p.registry
Storing(t) == pc[t] = "storing"

\* Use, line 97: p.By = v
UseAssignBy(t, v) ==
    /\ PolicyStep
    /\ pc[t] = "idle"
    /\ calls < MaxCalls
    /\ calls' = calls + 1
    /\ By' = v
    /\ frame' = [frame EXCEPT ![t] = [NoFrame EXCEPT !.f = v]]
    /\ pc' = [pc EXCEPT ![t] = "use_range"]
    /\ sortedSince' = [sortedSince EXCEPT ![t] = {}]
    /\ useRet' = [useRet EXCEPT ![t] = NoRet]
    /\ UNCHANGED <<registry, registryCap, registryMU, sortedBy, acquired>>

\* the slice headers an unsynchronised read of p.registry can deliver: the
\* stored one, and while another goroutine's store is in progress the one
\* being stored
HeadersRead(t) ==
    {registry} \cup {frame[u].pending : u \in {u \in Threads : u /= t /\ Storing(u)}}

\* Use, line 99: range evaluates p.registry once, without the lock
UseRange(t) ==
    /\ PolicyStep
    /\ pc[t] = "use_range"
    /\ \E h \in HeadersRead(t) :
           frame' = [frame EXCEPT ![t].snap = h, ![t].i = 1]
    /\ pc' = [pc EXCEPT ![t] = "use_sort"]
    /\ UNCHANGED <<By, registry, registryCap, registryMU, sortedBy, calls, sortedSince, useRet, acquired>>

\* Use, line 99, racing with a store that replaces the backing array: the
\* read can pair the pointer of one header with the length of the other and
\* the loop then reads outside the array (or through nil): the run-time faults
UseRangeTorn(t) ==
    /\ PolicyStep
    /\ pc[t] = "use_range"
    /\ \E u \in Threads : u /= t /\ Storing(u) /\ frame[u].moved
    /\ pc' = [pc EXCEPT ![t] = "fault"]
    /\ UNCHANGED <<By, registry, registryCap, registryMU, sortedBy, frame, calls,
                   sortedSince, useRet, acquired>>

\* ValidatorSet.SortValidators: sorts the set's list with the policy's By
SortValidators(s) == [sortedBy EXCEPT ![s] = By]

\* Use, line 100: validatorSet.SortValidators() on the next element
UseSort(t) ==
    /\ PolicyStep
    /\ pc[t] = "use_sort"
    /\ frame[t].i <= Len(frame[t].snap)
    /\ sortedBy' = SortValidators(frame[t].snap[frame[t].i])
    /\ sortedSince' = [u \in Threads |->
                          IF InUse(u) THEN sortedSince[u] \cup {frame[t].snap[frame[t].i]}
                          ELSE sortedSince[u]]
    /\ frame' = [frame EXCEPT ![t].i = frame[t].i + 1]
    /\ UNCHANGED <<By, registry, registryCap, registryMU, pc, calls, useRet, acquired>>

\* Use, line 102: the loop is over and Use returns
UseReturn(t) ==
    /\ PolicyStep
    /\ pc[t] = "use_sort"
    /\ frame[t].i > Len(frame[t].snap)
    /\ pc' = [pc EXCEPT ![t] = "idle"]
    /\ useRet' = [useRet EXCEPT ![t] =
                     [returned |-> TRUE,
                      byIsF    |-> By = frame[t].f,
                      resorted |-> \A k \in 1..Len(registry) : registry[k] \in sortedSince[t]]]
    /\ UNCHANGED <<By, registry, registryCap, registryMU, sortedBy, frame, calls, sortedSince, acquired>>

\* a lock that is taken without waiting for its holder
LockNoWait(t) == registryMU' = t

\* sync.Mutex.Lock: blocks until the mutex is free
Lock(t) == registryMU = 0 /\ registryMU' = t

\* RegisterValidatorSet, line 106: p.registryMU.Lock()
RegisterValidatorSetLock(t, valSet) ==
    /\ PolicyStep
    /\ pc[t] = "idle"
    /\ calls < MaxCalls
    /\ Len(registry) < MaxRegistry
    /\ calls' = calls + 1
    /\ Lock(t)
    /\ frame' = [frame EXCEPT ![t] = [NoFrame EXCEPT !.valSet = valSet]]
    /\ pc' = [pc EXCEPT ![t] = "reg_store"]
    /\ acquired' = Append(acquired, valSet)
    /\ UNCHANGED <<By, registry, registryCap, sortedBy, sortedSince, useRet>>

\* append(s, x): in place while the backing array has room, else into a new
\* array of twice the capacity
AppendCap(len, cap) == IF len < cap THEN cap ELSE 2 * cap

\* RegisterValidatorSet, lines 109-113: the new slice is built and its store
\* into p.registry begins
RegisterValidatorSetStore(t) ==
    /\ PolicyStep
    /\ pc[t] = "reg_store"
    /\ frame' = [frame EXCEPT
                    ![t].pending = IF Len(registry) = 0
                                   THEN <<frame[t].valSet>>
                                   ELSE Append(registry, frame[t].valSet),
                    ![t].pendingCap = IF Len(registry) = 0 THEN 1
                                      ELSE AppendCap(Len(registry), registryCap),
                    ![t].moved = (Len(registry) = 0 \/ Len(registry) >= registryCap)]
    /\ pc' = [pc EXCEPT ![t] = "storing"]
    /\ UNCHANGED <<By, registry, registryCap, registryMU, sortedBy, calls, sortedSince, useRet, acquired>>

\* ClearRegistry, line 118: p.registryMU.Lock()
ClearRegistryLock(t) ==
    /\ PolicyStep
    /\ pc[t] = "idle"
    /\ calls < MaxCalls
    /\ calls' = calls + 1
    /\ Lock(t)
    /\ frame' = [frame EXCEPT ![t] = NoFrame]
    /\ pc' = [pc EXCEPT ![t] = "clr_store"]
    /\ acquired' = <<>>
    /\ UNCHANGED <<By, registry, registryCap, sortedBy, sortedSince, useRet>>

\* ClearRegistry, line 121: the store of nil into p.registry begins
ClearRegistryStore(t) ==
    /\ PolicyStep
    /\ pc[t] = "clr_store"
    /\ frame' = [frame EXCEPT ![t].pending = <<>>, ![t].pendingCap = 0,
                              ![t].moved = (registryCap > 0)]
    /\ pc' = [pc EXCEPT ![t] = "storing"]
    /\ UNCHANGED <<By, registry, registryCap, registryMU, sortedBy, calls, sortedSince, useRet, acquired>>

\* lines 110, 112, 121: the store into p.registry is complete
StoreDone(t) ==
    /\ PolicyStep
    /\ pc[t] = "storing"
    /\ registry' = frame[t].pending
    /\ registryCap' = frame[t].pendingCap
    /\ pc' = [pc EXCEPT ![t] = "unlock"]
    /\ UNCHANGED <<By, registryMU, sortedBy, frame, calls, sortedSince, useRet, acquired>>

\* lines 107, 119: the deferred p.registryMU.Unlock(), and the return
Unlock(t) ==
    /\ PolicyStep
    /\ pc[t] = "unlock"
    /\ registryMU' = 0
    /\ pc' = [pc EXCEPT ![t] = "idle"]
    /\ UNCHANGED <<By, registry, registryCap, sortedBy, frame, calls, sortedSince, useRet, acquired>>

NextPolicy ==
    \/ \E t \in Threads, v \in SortFuncs : UseAssignBy(t, v)
    \/ \E t \in Threads : UseRange(t)
    \/ \E t \in Threads : UseRangeTorn(t)
    \/ \E t \in Threads : UseSort(t)
    \/ \E t \in Threads : UseReturn(t)
    \/ \E t \in Threads, valSet \in ValSets : RegisterValidatorSetLock(t, valSet)
    \/ \E t \in Threads : RegisterValidatorSetStore(t)
    \/ \E t \in Threads : ClearRegistryLock(t)
    \/ \E t \in Threads : ClearRegistryStore(t)
    \/ \E t \in Threads : StoreDone(t)
    \/ \E t \in Threads : Unlock(t)

----------------------------------------------------------------------------
(* View, and View.Cmp *)

MaxRound == 2

MaxSequence == 2

\* a View whose Round and Sequence are non-nil
NewView(round, sequence) == [Round |-> Ptr(round), Sequence |-> Ptr(sequence)]

\* round as the primary key
CmpRoundFirst(v, y) ==
    IF BigCmp(Deref(v.Round), Deref(y.Round)) /= 0
    THEN BigCmp(Deref(v.Round), Deref(y.Round))
    ELSE IF BigCmp(Deref(v.Sequence), Deref(y.Sequence)) /= 0
    THEN BigCmp(Deref(v.Sequence), Deref(y.Sequence))
    ELSE 0

Cmp(v, y) ==
    IF BigCmp(Deref(v.Sequence), Deref(y.Sequence)) /= 0
    THEN BigCmp(Deref(v.Sequence), Deref(y.Sequence))
    ELSE IF BigCmp(Deref(v.Round), Deref(y.Round)) /= 0
    THEN BigCmp(Deref(v.Round), Deref(y.Round))
    ELSE 0

CmpViews == {NewView(r, q) : r \in 0..MaxRound, q \in 0..MaxSequence}

NoCmp == [called |-> FALSE, c11 |-> 0, c12 |-> 0, c21 |-> 0, c23 |-> 0, c13 |-> 0]

InitViews ==
    /\ views = <<NewView(0, 0), NewView(0, 0), NewView(0, 0)>>
    /\ cmp = NoCmp

\* v1.Cmp(v1), v1.Cmp(v2), v2.Cmp(v1), v2.Cmp(v3), v1.Cmp(v3)
CallCmp ==
    /\ ~cmp.called
    /\ cmp' = [called |-> TRUE,
               c11 |-> Cmp(views[1], views[1]),
               c12 |-> Cmp(views[1], views[2]),
               c21 |-> Cmp(views[2], views[1]),
               c23 |-> Cmp(views[2], views[3]),
               c13 |-> Cmp(views[1], views[3])]
    /\ UNCHANGED <<views, resolverVars, policyVars, wireVars, restoreVars>>

----------------------------------------------------------------------------
(* RLP, as far as the envelopes use it: byte strings, big integers, lists *)

HashLength == 32

RECURSIVE BigEndian(_)
\* big.Int.Bytes: the minimal big-endian bytes of n >= 0
BigEndian(n) == IF n = 0 THEN <<>> ELSE Append(BigEndian(n \div 256), n % 256)

RECURSIVE FromBigEndian(_)
\* big.Int.SetBytes
FromBigEndian(b) ==
    IF b = <<>> THEN 0
    ELSE FromBigEndian(SubSeq(b, 1, Len(b) - 1)) * 256 + b[Len(b)]

\* the header of a string (base 128) or a list (base 192) of the given size
EncHeader(base, size) ==
    IF size <= 55 THEN <<base + size>>
    ELSE <<base + 55 + Len(BigEndian(size))>> \o BigEndian(size)

EncString(b) ==
    IF Len(b) = 1 /\ b[1] < 128 THEN b ELSE EncHeader(128, Len(b)) \o b

EncList(payload) == EncHeader(192, Len(payload)) \o payload

\* a *big.Int: nil is written as the empty string
EncBigInt(p) == IF p = Nil THEN <<128>> ELSE EncString(BigEndian(Deref(p)))

NoItem(e) == [err |-> e, kind |-> "", content |-> <<>>, rest |-> <<>>]

\* the value of `size` bytes that follows a header of `hdr` bytes
TakeItem(b, kind, hdr, size) ==
    IF Len(b) < hdr + size THEN NoItem("rlp: value size exceeds available input")
    ELSE [err |-> "", kind |-> kind,
          content |-> SubSeq(b, hdr + 1, hdr + size),
          rest |-> SubSeq(b, hdr + size + 1, Len(b))]

\* a value whose size was written apart must not have fitted the short form
TakeSizedItem(b, kind, hdr, size) ==
    IF size < 56 THEN NoItem("rlp: non-canonical size information")
    ELSE TakeItem(b, kind, hdr, size)

\* a value whose size is written in lenlen bytes after the first byte
TakeLongItem(b, kind, lenlen) ==
    IF Len(b) < 1 + lenlen THEN NoItem("unexpected EOF")
    ELSE IF b[2] = 0 THEN NoItem("rlp: non-canonical size information")
    ELSE IF lenlen > 3 THEN NoItem("rlp: value size exceeds available input")
    ELSE TakeSizedItem(b, kind, 1 + lenlen, FromBigEndian(SubSeq(b, 2, 1 + lenlen)))

\* the first byte of an item: its kind, and where its size is found
ItemAfterHeader(b, h) ==
    IF h < 128 THEN [err |-> "", kind |-> "Byte", content |-> <<h>>,
                     rest |-> SubSeq(b, 2, Len(b))]
    ELSE IF h < 192
         THEN IF h < 184 THEN TakeItem(b, "String", 1, h - 128)
              ELSE TakeLongItem(b, "String", h - 183)
    ELSE IF h < 248 THEN TakeItem(b, "List", 1, h - 192)
    ELSE TakeLongItem(b, "List", h - 247)

\* Stream.Kind and the value it announces: the next item of the input
ReadItem(b) == IF b = <<>> THEN NoItem("EOF") ELSE ItemAfterHeader(b, b[1])

RECURSIVE Fields(_)
RECURSIVE FieldsAfter(_)
\* the items of a list's content, in order, up to the first unreadable one
Fields(b) == IF b = <<>> THEN <<>> ELSE FieldsAfter(ReadItem(b))

FieldsAfter(item) == IF item.err /= "" THEN <<item>> ELSE <<item>> \o Fields(item.rest)

\* the k-th field of a struct: the list may not end before it
Field(fs, k) == IF Len(fs) < k THEN NoItem("rlp: too few elements") ELSE fs[k]

\* the end of a list of a struct of n fields: nothing may be left in it
ListEnd(fs, n) == IF Len(fs) > n THEN "rlp: input list has too many elements" ELSE ""

\* decoding a *big.Int from an item
DecodeBigInt(item) ==
    IF item.err /= "" THEN [err |-> item.err, val |-> Nil]
    ELSE IF item.kind = "List"
         THEN [err |-> "rlp: expected input string or byte", val |-> Nil]
    ELSE IF item.kind = "String" /\ Len(item.content) = 1 /\ item.content[1] < 128
         THEN [err |-> "rlp: non-canonical size information", val |-> Nil]
    ELSE IF Len(item.content) > 0 /\ item.content[1] = 0
         THEN [err |-> "rlp: non-canonical integer (leading zero bytes)", val |-> Nil]
    ELSE [err |-> "", val |-> Ptr(FromBigEndian(item.content))]

ZeroHash == [i \in 1..HashLength |-> 0]

\* decoding a common.Hash, a byte array, from an item
DecodeHash(item) ==
    IF item.err /= "" THEN [err |-> item.err, val |-> ZeroHash]
    ELSE IF item.kind = "List"
         THEN [err |-> "rlp: expected input string or byte", val |-> ZeroHash]
    ELSE IF Len(item.content) < HashLength
         THEN [err |-> "rlp: input string too short", val |-> ZeroHash]
    ELSE IF Len(item.content) > HashLength
         THEN [err |-> "rlp: input string too long", val |-> ZeroHash]
    ELSE [err |-> "", val |-> item.content]

\* a struct of two fields, filled in order up to the first error: the first
\* field's error, else the second's with the first field set, else the
\* list-end check with both set
StructOf(zero, first, second, end, both) ==
    IF first.err /= "" THEN [err |-> first.err, val |-> zero]
    ELSE IF second.err /= "" THEN [err |-> second.err, val |-> both]
    ELSE [err |-> end, val |-> both]

\* an item that must be a list: its fields, or the error
ListFields(item) ==
    IF item.err /= "" THEN [err |-> item.err, fields |-> <<>>]
    ELSE IF item.kind /= "List" THEN [err |-> "rlp: expected input list", fields |-> <<>>]
    ELSE [err |-> "", fields |-> Fields(item.content)]

\* types.Block, as far as the envelope carries it: its number; on the wire a
\* list holding the number
NewBlock(number) == [Number |-> Ptr(number)]

Block_EncodeRLP(b) == EncList(EncBigInt(b.Number))

BlockOf(number, end) ==
    IF number.err /= "" THEN [err |-> number.err, val |-> Nil]
    ELSE IF end /= "" THEN [err |-> end, val |-> Nil]
    ELSE [err |-> "", val |-> Ptr([Number |-> number.val])]

BlockFromList(l) ==
    IF l.err /= "" THEN [err |-> l.err, val |-> Nil]
    ELSE BlockOf(DecodeBigInt(Field(l.fields, 1)), ListEnd(l.fields, 1))

Block_DecodeRLP(item) == BlockFromList(ListFields(item))

----------------------------------------------------------------------------
(* EncodeRLP and DecodeRLP of View, Preprepare and Subject *)

\* rlp.Encode(w, []interface{}{v.Round, v.Sequence})
View_EncodeRLP(v) == EncList(EncBigInt(v.Round) \o EncBigInt(v.Sequence))

\* the zero View: both fields nil
ZeroView == [Round |-> Nil, Sequence |-> Nil]

ViewStructOf(round, seq, end) ==
    StructOf(ZeroView, round, seq, end,
             [Round |-> round.val, Sequence |-> seq.val])

ViewStructFromList(l) ==
    IF l.err /= "" THEN [err |-> l.err, val |-> ZeroView]
    ELSE ViewStructOf(DecodeBigInt(Field(l.fields, 1)),
                      DecodeBigInt(Field(l.fields, 2)),
                      ListEnd(l.fields, 2))

\* s.Decode(&view) for  struct { Round *big.Int; Sequence *big.Int }
DecodeViewStruct(item) == ViewStructFromList(ListFields(item))

\* the struct is copied into the receiver whether or not Decode failed
View_AssignUnchecked(v, view) == [err |-> view.err, val |-> view.val]

\* the fields are copied crosswise
View_AssignSwapped(v, view) ==
    IF view.err /= "" THEN [err |-> view.err, val |-> v]
    ELSE [err |-> "", val |-> [Round |-> view.val.Sequence, Sequence |-> view.val.Round]]

\* View.DecodeRLP, lines 180-184: return the error, else copy the fields
View_Assign(v, view) ==
    IF view.err /= "" THEN [err |-> view.err, val |-> v]
    ELSE [err |-> "", val |-> [Round |-> view.val.Round, Sequence |-> view.val.Sequence]]

\* View.DecodeRLP on the next item of the stream: the error returned and the
\* receiver after the call
View_DecodeRLP(v, item) == View_Assign(v, DecodeViewStruct(item))

\* a *View inside an envelope: nil is written as the empty list
EncViewPtr(p) == IF p = Nil THEN <<192>> ELSE View_EncodeRLP(Deref(p))

NewViewPtr(r) ==
    IF r.err /= "" THEN [err |-> r.err, val |-> Nil] ELSE [err |-> "", val |-> Ptr(r.val)]

\* a *View field: a new View is allocated and View.DecodeRLP fills it
DecodeViewPtr(item) == NewViewPtr(View_DecodeRLP(ZeroView, item))

\* rlp.Encode(w, []interface{}{b.View, b.Proposal})
Preprepare_EncodeRLP(b) == EncList(EncViewPtr(b.View) \o Block_EncodeRLP(Deref(b.Proposal)))

ZeroPreprepare == [View |-> Nil, Proposal |-> Nil]

PreprepareStructOf(view, block, end) ==
    StructOf(ZeroPreprepare, view, block, end,
             [View |-> view.val, Proposal |-> block.val])

PreprepareStructFromList(l) ==
    IF l.err /= "" THEN [err |-> l.err, val |-> ZeroPreprepare]
    ELSE PreprepareStructOf(DecodeViewPtr(Field(l.fields, 1)),
                            Block_DecodeRLP(Field(l.fields, 2)),
                            ListEnd(l.fields, 2))

\* s.Decode(&preprepare) for  struct { View *View; Proposal *types.Block }
DecodePreprepareStruct(item) == PreprepareStructFromList(ListFields(item))

\* Preprepare.DecodeRLP, lines 223-228
Preprepare_Assign(b, preprepare) ==
    IF preprepare.err /= "" THEN [err |-> preprepare.err, val |-> b]
    ELSE [err |-> "",
          val |-> [View |-> preprepare.val.View, Proposal |-> preprepare.val.Proposal]]

Preprepare_DecodeRLP(b, item) == Preprepare_Assign(b, DecodePreprepareStruct(item))

\* rlp.Encode(w, []interface{}{b.View, b.Digest})
Subject_EncodeRLP(b) == EncList(EncViewPtr(b.View) \o EncString(b.Digest))

ZeroSubject == [View |-> Nil, Digest |-> ZeroHash]

SubjectStructOf(view, digest, end) ==
    StructOf(ZeroSubject, view, digest, end,
             [View |-> view.val, Digest |-> digest.val])

SubjectStructFromList(l) ==
    IF l.err /= "" THEN [err |-> l.err, val |-> ZeroSubject]
    ELSE SubjectStructOf(DecodeViewPtr(Field(l.fields, 1)),
                         DecodeHash(Field(l.fields, 2)),
                         ListEnd(l.fields, 2))

\* s.Decode(&subject) for  struct { View *View; Digest common.Hash }
DecodeSubjectStruct(item) == SubjectStructFromList(ListFields(item))

\* Subject.DecodeRLP, lines 248-252
Subject_Assign(b, subject) ==
    IF subject.err /= "" THEN [err |-> subject.err, val |-> b]
    ELSE [err |-> "", val |-> [View |-> subject.val.View, Digest |-> subject.val.Digest]]

Subject_DecodeRLP(b, item) == Subject_Assign(b, DecodeSubjectStruct(item))

EncodeRLP(m) ==
    CASE m.type = "View"       -> View_EncodeRLP(m.val)
      [] m.type = "Preprepare" -> Preprepare_EncodeRLP(m.val)
      [] m.type = "Subject"    -> Subject_EncodeRLP(m.val)

DecodeRLP(m, item) ==
    CASE m.type = "View"       -> View_DecodeRLP(m.val, item)
      [] m.type = "Preprepare" -> Preprepare_DecodeRLP(m.val, item)
      [] m.type = "Subject"    -> Subject_DecodeRLP(m.val, item)

----------------------------------------------------------------------------
(* the envelopes sent, damaged on the way, and decoded *)

WireNumbers == {0, 1, 127, 128, 256}

EnvelopeViews == {NewView(0, 1), NewView(1, 0), NewView(128, 256)}

HighHash == [i \in 1..HashLength |-> 127 + i]

Messages ==
    {[type |-> "View", val |-> NewView(r, q)] : r \in WireNumbers, q \in WireNumbers}
    \cup {[type |-> "Preprepare", val |-> [View |-> Ptr(v), Proposal |-> Ptr(NewBlock(n))]] :
              v \in EnvelopeViews, n \in {0, 1, 300}}
    \cup {[type |-> "Subject", val |-> [View |-> Ptr(v), Digest |-> d]] :
              v \in EnvelopeViews, d \in {ZeroHash, HighHash}}

\* what the receiver decodes into: a fresh value, or one decoded into before
Targets(type) ==
    CASE type = "View"       -> {ZeroView, NewView(7, 9)}
      [] type = "Preprepare" -> {ZeroPreprepare,
                                 [View |-> Ptr(NewView(7, 9)), Proposal |-> Ptr(NewBlock(5))]}
      [] type = "Subject"    -> {ZeroSubject,
                                 [View |-> Ptr(NewView(7, 9)), Digest |-> HighHash]}

\* bytes a damaged message may carry: 0x00, 0x80, 0x81, 0xc0, 0xc1, 0xff
CorruptBytes == {0, 128, 129, 192, 193, 255}

NoMessage == [type |-> "View", val |-> NewView(0, 0)]

InitWire ==
    /\ msg = NoMessage
    /\ wire = <<>>
    /\ target = ZeroView
    /\ before = ZeroView
    /\ err = ""
    /\ phase = "idle"

\* the sender calls EncodeRLP
Encode ==
    /\ phase = "start"
    /\ wire' = EncodeRLP(msg)
    /\ phase' = "encoded"
    /\ UNCHANGED <<msg, target, before, err, resolverVars, policyVars, viewVars, restoreVars>>

\* the message is cut short on the way
Truncate ==
    /\ phase = "encoded"
    /\ \E k \in 0..(Len(wire) - 1) : wire' = SubSeq(wire, 1, k)
    /\ phase' = "damaged"
    /\ UNCHANGED <<msg, target, before, err, resolverVars, policyVars, viewVars, restoreVars>>

\* one byte of the message is changed on the way
Corrupt ==
    /\ phase = "encoded"
    /\ \E i \in 1..Len(wire), b \in CorruptBytes :
           /\ b /= wire[i]
           /\ wire' = [wire EXCEPT ![i] = b]
    /\ phase' = "damaged"
    /\ UNCHANGED <<msg, target, before, err, resolverVars, policyVars, viewVars, restoreVars>>

\* the receiver calls DecodeRLP on its target
Decode ==
    /\ phase \in {"encoded", "damaged"}
    /\ before' = target
    /\ \E r \in {DecodeRLP([type |-> msg.type, val |-> target], ReadItem(wire))} :
           /\ target' = r.val
           /\ err' = r.err
    /\ phase' = "decoded"
    /\ UNCHANGED <<msg, wire, resolverVars, policyVars, viewVars, restoreVars>>

NextWire == Encode \/ Truncate \/ Corrupt \/ Decode

----------------------------------------------------------------------------
(* ProposerPolicy persisted with MarshalTOML and loaded with UnmarshalTOML *)

MaxSetupCalls == 2

MaxRestoredCalls == 2

RoundRobin == 0

Sticky == 1

PolicyIds == {RoundRobin, Sticky}

\* a *sync.Mutex from new(sync.Mutex)
NewMutex == Ptr("unlocked")

\* &ProposerPolicy{Id: id, By: by, registryMU: new(sync.Mutex)}
NewProposerPolicyByIdAndSortFunc(id, by) ==
    [Id |-> id, By |-> by, registry |-> <<>>, registryMU |-> NewMutex]

NewProposerPolicy(id) == NewProposerPolicyByIdAndSortFunc(id, "ByString")

\* the zero ProposerPolicy: Id 0, no comparison function, no registry, a nil
\* mutex pointer
EmptyPolicy == [Id |-> 0, By |-> "nil", registry |-> <<>>, registryMU |-> Nil]

\* toml.Marshal of proposerPolicyToml: one key with its value
TomlMarshal(pp) == <<[key |-> "Id", value |-> pp.Id]>>

\* toml.Unmarshal into proposerPolicyToml: a key that is absent leaves zero
TomlUnmarshal(data) ==
    [Id |-> IF \E i \in 1..Len(data) : data[i].key = "Id"
            THEN data[CHOOSE i \in 1..Len(data) : data[i].key = "Id"].value
            ELSE 0]

\* only the Id goes into the document
MarshalTOML(pol) == Ptr(TomlMarshal([Id |-> pol.Id]))

\* Id from the document, By the address-string comparator; registry and
\* registryMU are left as the receiver has them
UnmarshalTOML(pol, data) ==
    [pol EXCEPT !.Id = TomlUnmarshal(Deref(data)).Id, !.By = "ByString"]

\* a validator set as a policy's registry holds it: which set, and the
\* comparison function its list was last sorted with
NewValidatorSet(s) == [set |-> s, sortedBy |-> "ByString"]

\* p.registryMU.Lock() on a nil *sync.Mutex dereferences nil
MutexIsNil(pol) == pol.registryMU = Nil

\* Use run on its own: By is set and every registered set is sorted with it
Policy_Use(pol, v) ==
    Returned([pol EXCEPT !.By = v,
                         !.registry = [k \in 1..Len(pol.registry) |->
                                          [pol.registry[k] EXCEPT !.sortedBy = v]]])

\* RegisterValidatorSet run on its own
Policy_RegisterValidatorSet(pol, valSet) ==
    IF MutexIsNil(pol) THEN Panicked
    ELSE Returned([pol EXCEPT !.registry = IF Len(pol.registry) = 0
                                           THEN <<valSet>>
                                           ELSE Append(pol.registry, valSet)])

\* ClearRegistry run on its own
Policy_ClearRegistry(pol) ==
    IF MutexIsNil(pol) THEN Panicked
    ELSE Returned([pol EXCEPT !.registry = <<>>])

InitRestore ==
    /\ source = EmptyPolicy
    /\ tomlData = Nil
    /\ restored = EmptyPolicy
    /\ fresh = EmptyPolicy
    /\ stage = "idle"
    /\ failed = FALSE
    /\ ops = 0

RestoreStep == UNCHANGED <<resolverVars, policyVars, viewVars, wireVars>>

\* the policy that will be persisted is given a comparison function
SourceUse(v) ==
    /\ RestoreStep
    /\ stage = "built"
    /\ ops < MaxSetupCalls
    /\ source' = Deref(Policy_Use(source, v).val)
    /\ ops' = ops + 1
    /\ UNCHANGED <<tomlData, restored, fresh, stage, failed>>

\* the policy that will be persisted is given a validator set
SourceRegister(s) ==
    /\ RestoreStep
    /\ stage = "built"
    /\ ops < MaxSetupCalls
    /\ source' = Deref(Policy_RegisterValidatorSet(source, NewValidatorSet(s)).val)
    /\ ops' = ops + 1
    /\ UNCHANGED <<tomlData, restored, fresh, stage, failed>>

\* source.MarshalTOML()
Marshal ==
    /\ RestoreStep
    /\ stage = "built"
    /\ tomlData' = MarshalTOML(source)
    /\ stage' = "marshalled"
    /\ UNCHANGED <<source, restored, fresh, failed, ops>>

\* UnmarshalTOML into an empty policy; a fresh policy of the same Id is
\* built beside it
Unmarshal ==
    /\ RestoreStep
    /\ stage = "marshalled"
    /\ restored' = UnmarshalTOML(EmptyPolicy, tomlData)
    /\ fresh' = NewProposerPolicy(source.Id)
    /\ stage' = "restored"
    /\ ops' = 0
    /\ UNCHANGED <<source, tomlData, failed>>

\* one call made on the restored policy and on the fresh one: the restored
\* policy takes the call's result unless the call panicked
CallBoth(onRestored, onFresh) ==
    /\ stage = "restored"
    /\ ~failed
    /\ ops < MaxRestoredCalls
    /\ failed' = onRestored.panicked
    /\ restored' = IF onRestored.panicked THEN restored ELSE Deref(onRestored.val)
    /\ fresh' = Deref(onFresh.val)
    /\ ops' = ops + 1
    /\ UNCHANGED <<source, tomlData, stage>>

RestoredUse(v) ==
    /\ RestoreStep
    /\ CallBoth(Policy_Use(restored, v), Policy_Use(fresh, v))

RestoredRegister(s) ==
    /\ RestoreStep
    /\ CallBoth(Policy_RegisterValidatorSet(restored, NewValidatorSet(s)),
                Policy_RegisterValidatorSet(fresh, NewValidatorSet(s)))

RestoredClear ==
    /\ RestoreStep
    /\ CallBoth(Policy_ClearRegistry(restored), Policy_ClearRegistry(fresh))

NextRestore ==
    \/ \E v \in SortFuncs : SourceUse(v)
    \/ \E s \in ValSets : SourceRegister(s)
    \/ Marshal
    \/ Unmarshal
    \/ \E v \in SortFuncs : RestoredUse(v)
    \/ \E s \in ValSets : RestoredRegister(s)
    \/ RestoredClear

----------------------------------------------------------------------------
(* the configurations and the calls explored *)

MaxTransitions == 2

MaxBlocks == 2

MaxValidators == 5

\* transition heights are the even heights; queries also fall between them
Blocks == {2 * i : i \in 1..MaxBlocks}

Heights == 0..(2 * MaxBlocks + 1)

BlockNumbers == {Nil} \cup {Ptr(h) : h \in Heights}

\* floor((2^64 - 1) / 1000): the largest RequestTimeoutSeconds whose
\* product by 1000 fits a uint64, and the value after it
MaxFitSeconds == <<65, 35127, 19398, 42991>>

OverflowSeconds == <<65, 35127, 19398, 42992>>

TransitionPool ==
    { EmptyTransition,
      [EmptyTransition EXCEPT !.RequestTimeoutSeconds = U64(5)],
      [EmptyTransition EXCEPT !.RequestTimeoutSeconds = OverflowSeconds],
      [EmptyTransition EXCEPT !.RequestTimeoutSeconds = MaxFitSeconds,
                              !.EpochLength = 200,
                              !.BlockPeriodSeconds = 2],
      [EmptyTransition EXCEPT !.EmptyBlockPeriodSeconds = Ptr(0),
                              !.MaxRequestTimeoutSeconds = Ptr(60),
                              !.BeneficiaryMode = Ptr("list"),
                              !.BlockReward = Ptr(7),
                              !.MiningBeneficiary = Ptr("M")],
      [EmptyTransition EXCEPT !.ValidatorSelectionMode = ContractMode,
                              !.TwoFPlusOneEnabled = Ptr(FALSE)],
      [EmptyTransition EXCEPT !.ValidatorSelectionMode = BlockHeaderMode,
                              !.Validators = <<"A">>],
      [EmptyTransition EXCEPT !.Validators = <<"B", "A">>,
                              !.TwoFPlusOneEnabled = Ptr(TRUE)],
      [ Block                    |-> 0,
        EpochLength              |-> 300,
        BlockPeriodSeconds       |-> 3,
        EmptyBlockPeriodSeconds  |-> Ptr(9),
        RequestTimeoutSeconds    |-> U64(7),
        Validators               |-> <<"C">>,
        ValidatorSelectionMode   |-> ContractMode,
        TwoFPlusOneEnabled       |-> Ptr(TRUE),
        BlockReward              |-> Ptr(8),
        BeneficiaryMode          |-> Ptr("besu"),
        MiningBeneficiary        |-> Ptr("N"),
        MaxRequestTimeoutSeconds |-> Ptr(0) ] }

TransitionRecords == {[t EXCEPT !.Block = b] : t \in TransitionPool, b \in Blocks}

Ascending(ts) == \A i \in 1..(Len(ts) - 1) : ts[i].Block <= ts[i + 1].Block

\* the transition logs the chain configuration delivers: ascending heights
AscendingLogs ==
    UNION {{ts \in [1..n -> TransitionRecords] : Ascending(ts)} : n \in 0..MaxTransitions}

PopulatedConfig ==
    [ RequestTimeout           |-> U64(4000),
      BlockPeriod              |-> 1,
      EmptyBlockPeriod         |-> 6,
      Epoch                    |-> 100,
      Ceil2Nby3Block           |-> 3,
      AllowedFutureBlockTime   |-> 2,
      BeneficiaryMode          |-> Ptr("validators"),
      BlockReward              |-> Ptr(1),
      MiningBeneficiary        |-> Ptr("L"),
      Validators               |-> <<"A", "B">>,
      ValidatorSelectionMode   |-> Ptr(ContractMode),
      MaxRequestTimeoutSeconds |-> 30,
      Transitions              |-> Nil ]

BaseConfigs == {DefaultConfig, PopulatedConfig}

Configs(logs) ==
    {[b EXCEPT !.Transitions = ts] : b \in BaseConfigs,
                                     ts \in {Nil} \cup {Ptr(l) : l \in logs}}

NoCall == [fn |-> "none", blockNumber |-> Nil, size |-> 0, out |-> Returned(0)]

SpecPolicyInit ==
    /\ c = DefaultConfig
    /\ resolved = NoCall
    /\ InitPolicy
    /\ InitViews
    /\ InitWire
    /\ InitRestore

SpecViewInit ==
    /\ c = DefaultConfig
    /\ resolved = NoCall
    /\ InitPolicy
    /\ views \in CmpViews \X CmpViews \X CmpViews
    /\ cmp = NoCmp
    /\ InitWire
    /\ InitRestore

SpecView == SpecViewInit /\ [][CallCmp]_vars

SpecWireInit ==
    /\ c = DefaultConfig
    /\ resolved = NoCall
    /\ InitPolicy
    /\ InitViews
    /\ msg \in Messages
    /\ target \in Targets(msg.type)
    /\ before = target
    /\ wire = <<>>
    /\ err = ""
    /\ phase = "start"
    /\ InitRestore

SpecWire == SpecWireInit /\ [][NextWire]_vars

SpecPolicy == SpecPolicyInit /\ [][NextPolicy]_vars

\* a policy from NewProposerPolicy is set up, persisted and loaded
SpecRestoreInit ==
    /\ c = DefaultConfig
    /\ resolved = NoCall
    /\ InitPolicy
    /\ InitViews
    /\ InitWire
    /\ source \in {NewProposerPolicy(id) : id \in PolicyIds}
    /\ tomlData = Nil
    /\ restored = EmptyPolicy
    /\ fresh = EmptyPolicy
    /\ stage = "built"
    /\ failed = FALSE
    /\ ops = 0

SpecRestore == SpecRestoreInit /\ [][NextRestore]_vars

\* The resolver is a pure function of the immutable Config and the height:
\* a behaviour is one Config and one call on it.
InitResolver ==
    /\ c \in Configs(AscendingLogs)
    /\ resolved = NoCall
    /\ InitPolicy
    /\ InitViews
    /\ InitWire
    /\ InitRestore

CallGetConfig ==
    \E num \in BlockNumbers :
        /\ resolved = NoCall
        /\ resolved' = [fn |-> "GetConfig", blockNumber |-> num, size |-> 0,
                        out |-> GetConfig(c, num)]
        /\ UNCHANGED <<c, policyVars, viewVars, wireVars, restoreVars>>

CallGetValidatorSelectionMode ==
    \E num \in BlockNumbers :
        /\ resolved = NoCall
        /\ resolved' = [fn |-> "GetValidatorSelectionMode", blockNumber |-> num, size |-> 0,
                        out |-> GetValidatorSelectionMode(c, num)]
        /\ UNCHANGED <<c, policyVars, viewVars, wireVars, restoreVars>>

CallGetValidatorsAt ==
    \E num \in BlockNumbers :
        /\ resolved = NoCall
        /\ resolved' = [fn |-> "GetValidatorsAt", blockNumber |-> num, size |-> 0,
                        out |-> GetValidatorsAt(c, num)]
        /\ UNCHANGED <<c, policyVars, viewVars, wireVars, restoreVars>>

CallGet2FPlus1Enabled ==
    \E num \in BlockNumbers :
        /\ resolved = NoCall
        /\ resolved' = [fn |-> "Get2FPlus1Enabled", blockNumber |-> num, size |-> 0,
                        out |-> Get2FPlus1Enabled(c, num)]
        /\ UNCHANGED <<c, policyVars, viewVars, wireVars, restoreVars>>

CallQuorumSize ==
    \E h \in Heights, n \in 1..MaxValidators :
        /\ resolved = NoCall
        /\ resolved' = [fn |-> "QuorumSize", blockNumber |-> Ptr(h), size |-> n,
                        out |-> Returned(QuorumSize(c, n, h))]
        /\ UNCHANGED <<c, policyVars, viewVars, wireVars, restoreVars>>

NextResolver ==
    \/ CallGetConfig
    \/ CallGetValidatorSelectionMode
    \/ CallGetValidatorsAt
    \/ CallGet2FPlus1Enabled
    \/ CallQuorumSize

Spec == InitResolver /\ [][NextResolver]_vars

\* the records that set Epoch or the 2F+1 flag: enough to tell which
\* transitions a call applied
OrderPool == {t \in TransitionPool : t.EpochLength /= 0 \/ t.TwoFPlusOneEnabled /= Nil}

\* transition logs in any order of heights
AnyLogs ==
    UNION {[1..n -> {[t EXCEPT !.Block = b] : t \in OrderPool, b \in Blocks}] :
               n \in 0..MaxTransitions}

\* a Config whose transition log need not be ascending, and one call on it
InitAnyLog ==
    /\ c \in Configs(AnyLogs)
    /\ resolved = NoCall
    /\ InitPolicy
    /\ InitViews
    /\ InitWire
    /\ InitRestore

SpecAnyLog == InitAnyLog /\ [][NextResolver]_vars

----------------------------------------------------------------------------
(* properties of the resolver *)

TransitionsOf(cfg) == IF cfg.Transitions = Nil THEN <<>> ELSE Deref(cfg.Transitions)

\* the index of the highest transition at or below h that sets a field (the
\* last such one in list order), 0 when there is none
LastSetting(cfg, h, present(_)) ==
    LET ts == TransitionsOf(cfg)
        S  == {i \in 1..Len(ts) : ts[i].Block <= h /\ present(ts[i])}
    IN  IF S = {} THEN 0 ELSE CHOOSE i \in S : \A j \in S : j <= i

\* base when no transition at or below h sets the field, else the value the
\* highest such transition gives it
Resolve(cfg, h, present(_), value(_), base) ==
    LET i == LastSetting(cfg, h, present)
    IN  IF i = 0 THEN base ELSE value(TransitionsOf(cfg)[i])

ExpectedConfig(cfg, h) ==
    [ RequestTimeout |->
          Resolve(cfg, h, LAMBDA t : t.RequestTimeoutSeconds /= U64Zero,
                  LAMBDA t : U64Mul(t.RequestTimeoutSeconds, 1000), cfg.RequestTimeout),
      Epoch |->
          Resolve(cfg, h, LAMBDA t : t.EpochLength /= 0,
                  LAMBDA t : t.EpochLength, cfg.Epoch),
      BlockPeriod |->
          Resolve(cfg, h, LAMBDA t : t.BlockPeriodSeconds /= 0,
                  LAMBDA t : t.BlockPeriodSeconds, cfg.BlockPeriod),
      EmptyBlockPeriod |->
          Resolve(cfg, h, LAMBDA t : t.EmptyBlockPeriodSeconds /= Nil,
                  LAMBDA t : t.EmptyBlockPeriodSeconds[1], cfg.EmptyBlockPeriod),
      BeneficiaryMode |->
          Resolve(cfg, h, LAMBDA t : t.BeneficiaryMode /= Nil,
                  LAMBDA t : t.BeneficiaryMode, cfg.BeneficiaryMode),
      BlockReward |->
          Resolve(cfg, h, LAMBDA t : t.BlockReward /= Nil,
                  LAMBDA t : t.BlockReward, cfg.BlockReward),
      MiningBeneficiary |->
          Resolve(cfg, h, LAMBDA t : t.MiningBeneficiary /= Nil,
                  LAMBDA t : t.MiningBeneficiary, cfg.MiningBeneficiary),
      ValidatorSelectionMode |->
          Resolve(cfg, h, LAMBDA t : t.ValidatorSelectionMode /= "",
                  LAMBDA t : <<t.ValidatorSelectionMode>>, cfg.ValidatorSelectionMode),
      Validators |->
          Resolve(cfg, h, LAMBDA t : t.Validators /= <<>>,
                  LAMBDA t : t.Validators, cfg.Validators),
      MaxRequestTimeoutSeconds |->
          Resolve(cfg, h, LAMBDA t : t.MaxRequestTimeoutSeconds /= Nil,
                  LAMBDA t : t.MaxRequestTimeoutSeconds[1], cfg.MaxRequestTimeoutSeconds),
      Ceil2Nby3Block         |-> cfg.Ceil2Nby3Block,
      AllowedFutureBlockTime |-> cfg.AllowedFutureBlockTime,
      Transitions            |-> cfg.Transitions ]

CalledAt(fn) == resolved.fn = fn /\ resolved.blockNumber /= Nil

CallHeight == resolved.blockNumber[1]

CallValue == resolved.out.val[1]

\* C1: on an ascending transition log, GetConfig(h) is the base config in
\* which each field holds the value given by the highest transition with
\* Block <= h that sets it (non-zero, non-nil, non-empty), or the base value
\* when none does; transitions with Block > h do not affect the result.
C1_GetConfigFold ==
    (CalledAt("GetConfig") /\ Ascending(TransitionsOf(c)))
        => /\ ~resolved.out.panicked
           /\ CallValue = ExpectedConfig(c, CallHeight)

\* a later transition above the height sets Epoch too and is left out
C1_Witness ==
    /\ CalledAt("GetConfig")
    /\ Len(TransitionsOf(c)) = 2
    /\ TransitionsOf(c)[1].Block <= CallHeight
    /\ CallHeight < TransitionsOf(c)[2].Block
    /\ TransitionsOf(c)[1].EpochLength /= 0
    /\ TransitionsOf(c)[2].EpochLength /= 0
    /\ TransitionsOf(c)[2].EpochLength /= TransitionsOf(c)[1].EpochLength
    /\ TransitionsOf(c)[1].Validators = <<>>
    /\ CallValue.Epoch = TransitionsOf(c)[1].EpochLength
    /\ CallValue.Validators = c.Validators
    /\ c.Validators /= <<>>

\* floor((n - 1) / 3) and ceil(2n / 3), stated by their defining inequalities
FloorThird(n) == CHOOSE f \in 0..n : 3 * f <= n - 1 /\ n - 1 < 3 * f + 3

CeilTwoThirds(n) == CHOOSE q \in 0..n : 3 * q >= 2 * n /\ 3 * (q - 1) < 2 * n

Expected2FPlus1(cfg, h) ==
    Resolve(cfg, h, LAMBDA t : t.TwoFPlusOneEnabled /= Nil,
            LAMBDA t : t.TwoFPlusOneEnabled[1], FALSE)

QuorumScenario == [DefaultConfig EXCEPT !.Ceil2Nby3Block = 1000]

\* C2: the quorum size for N validators at height h is 2*floor((N-1)/3)+1
\* when h < Ceil2Nby3Block or Get2FPlus1Enabled(h), and ceil(2N/3) otherwise;
\* Get2FPlus1Enabled(h) is the flag of the last transition with Block <= h
\* that sets it, false when there is none; with Ceil2Nby3Block = 1000 and
\* N = 5 the quorum is 3 at height 500 and 4 at height 1500.
C2_QuorumSize ==
    /\ CalledAt("Get2FPlus1Enabled")
           => /\ ~resolved.out.panicked
              /\ CallValue = Expected2FPlus1(c, CallHeight)
    /\ CalledAt("QuorumSize")
           => CallValue =
                  IF CallHeight < c.Ceil2Nby3Block \/ Expected2FPlus1(c, CallHeight)
                  THEN 2 * FloorThird(resolved.size) + 1
                  ELSE CeilTwoThirds(resolved.size)
    /\ QuorumSize(QuorumScenario, 5, 500) = 3
    /\ QuorumSize(QuorumScenario, 5, 1500) = 4

\* above the switch height, an earlier transition enabled 2F+1 and a later
\* one at or below the height disabled it again: the quorum is ceil(2N/3)
C2_Witness ==
    /\ CalledAt("QuorumSize")
    /\ resolved.size = 5
    /\ CallHeight >= c.Ceil2Nby3Block
    /\ Len(TransitionsOf(c)) = 2
    /\ TransitionsOf(c)[2].Block <= CallHeight
    /\ TransitionsOf(c)[1].TwoFPlusOneEnabled = <<TRUE>>
    /\ TransitionsOf(c)[2].TwoFPlusOneEnabled = <<FALSE>>
    /\ CallValue = 4

ValidatorsScenario ==
    [DefaultConfig EXCEPT !.Transitions =
        Ptr(<< [EmptyTransition EXCEPT !.Block = 10, !.Validators = <<"A">>],
               [EmptyTransition EXCEPT !.Block = 20, !.Validators = <<"B">>] >>)]

\* C5: GetValidatorsAt(0) is the base validator list when that is non-empty;
\* for h > 0 it is the first transition record's list when that record exists
\* and its Block equals h, and the empty list otherwise, whatever the later
\* records hold; for [{10,[A]},{20,[B]}] it is [A] at 10 and empty at 15, 20
\* and 25.
C5_GetValidatorsAtFirstOnly ==
    /\ CalledAt("GetValidatorsAt")
           => /\ ~resolved.out.panicked
              /\ (CallHeight = 0 /\ c.Validators /= <<>>) => CallValue = c.Validators
              /\ CallHeight > 0
                     => CallValue =
                            IF /\ TransitionsOf(c) /= <<>>
                               /\ TransitionsOf(c)[1].Block = CallHeight
                            THEN TransitionsOf(c)[1].Validators
                            ELSE <<>>
    /\ GetValidatorsAt(ValidatorsScenario, Ptr(10)) = Returned(<<"A">>)
    /\ \A h \in {15, 20, 25} : GetValidatorsAt(ValidatorsScenario, Ptr(h)) = Returned(<<>>)

\* queried at the height of the second record, which lists validators
C5_Witness ==
    /\ CalledAt("GetValidatorsAt")
    /\ Len(TransitionsOf(c)) = 2
    /\ TransitionsOf(c)[1].Block < TransitionsOf(c)[2].Block
    /\ TransitionsOf(c)[2].Block = CallHeight
    /\ TransitionsOf(c)[1].Validators /= <<>>
    /\ TransitionsOf(c)[2].Validators /= <<>>
    /\ CallValue = <<>>

\* C6: GetConfig(h).RequestTimeout is exactly 1000 times the
\* RequestTimeoutSeconds of the highest transition with Block <= h that sets
\* it, for every uint64 value of that field, and the base RequestTimeout when
\* there is none.
C6_RequestTimeoutExact ==
    CalledAt("GetConfig")
        => LET i == LastSetting(c, CallHeight, LAMBDA t : t.RequestTimeoutSeconds /= U64Zero)
           IN  Widen(CallValue.RequestTimeout) =
                   IF i = 0 THEN Widen(c.RequestTimeout)
                   ELSE ExactMul(TransitionsOf(c)[i].RequestTimeoutSeconds, 1000)

ResolverMethods ==
    {"GetConfig", "GetValidatorSelectionMode", "GetValidatorsAt", "Get2FPlus1Enabled"}

\* C7: GetConfig, GetValidatorSelectionMode, GetValidatorsAt and
\* Get2FPlus1Enabled return a value, without aborting, for every height
\* argument, a nil one included, and every transition log, an absent or
\* empty one included.
C7_ResolverNeverAborts ==
    resolved.fn \in ResolverMethods => ~resolved.out.panicked

\* the mode the base config gives: its own when set, else the header-vote mode
BaseMode(cfg) ==
    IF cfg.ValidatorSelectionMode /= Nil THEN cfg.ValidatorSelectionMode[1] ELSE "blockheader"

\* C12: GetValidatorSelectionMode(h) is the ValidatorSelectionMode of the
\* highest transition with Block <= h whose mode is non-empty; when there is
\* none it is the base config's mode when that is set and "blockheader" when
\* it is not; it agrees with the ValidatorSelectionMode field of GetConfig(h)
\* whenever that field is set.
C12_SelectionModeResolved ==
    resolved.fn = "GetValidatorSelectionMode"
        => /\ ~resolved.out.panicked
           /\ resolved.blockNumber = Nil => CallValue = BaseMode(c)
           /\ resolved.blockNumber /= Nil
                  => CallValue =
                         Resolve(c, CallHeight, LAMBDA t : t.ValidatorSelectionMode /= "",
                                 LAMBDA t : t.ValidatorSelectionMode, BaseMode(c))
           /\ LET field == GetConfig(c, resolved.blockNumber).val[1].ValidatorSelectionMode
              IN  field /= Nil => CallValue = field[1]

\* the base config sets no mode, the first transition sets "contract" and a
\* later one at or below the height sets none
C12_Witness ==
    /\ CalledAt("GetValidatorSelectionMode")
    /\ c.ValidatorSelectionMode = Nil
    /\ Len(TransitionsOf(c)) = 2
    /\ TransitionsOf(c)[1].Block < TransitionsOf(c)[2].Block
    /\ TransitionsOf(c)[2].Block <= CallHeight
    /\ TransitionsOf(c)[1].ValidatorSelectionMode = "contract"
    /\ TransitionsOf(c)[2].ValidatorSelectionMode = ""
    /\ CallValue = "contract"

\* the length of the longest leading run of ts whose Block values are all <= h
LeadingRun(ts, h) ==
    CHOOSE n \in 0..Len(ts) :
        /\ \A i \in 1..n : ts[i].Block <= h
        /\ n = Len(ts) \/ ts[n + 1].Block > h

\* the config with its log cut down to that run
RunConfig(cfg, h) ==
    IF cfg.Transitions = Nil THEN cfg
    ELSE [cfg EXCEPT !.Transitions =
             <<SubSeq(cfg.Transitions[1], 1, LeadingRun(cfg.Transitions[1], h))>>]

\* C14: for any transition log, ascending or not, the transitions applied for
\* height h by GetConfig, GetValidatorSelectionMode and Get2FPlus1Enabled are
\* exactly the longest leading run of the list whose Block values are all
\* <= h, in list order: a record after the first one with Block > h is never
\* applied, even when its own Block is <= h, and the log is returned as it
\* was, neither reordered nor sorted.
C14_LeadingRunApplied ==
    /\ CalledAt("GetConfig")
           => CallValue = [ExpectedConfig(RunConfig(c, CallHeight), CallHeight)
                              EXCEPT !.Transitions = c.Transitions]
    /\ CalledAt("GetValidatorSelectionMode")
           => CallValue =
                  Resolve(RunConfig(c, CallHeight), CallHeight,
                          LAMBDA t : t.ValidatorSelectionMode /= "",
                          LAMBDA t : t.ValidatorSelectionMode, BaseMode(c))
    /\ CalledAt("Get2FPlus1Enabled")
           => CallValue = Expected2FPlus1(RunConfig(c, CallHeight), CallHeight)

\* the first record lies above the height, the second one at or below it
\* sets Epoch, and GetConfig returns the base Epoch
C14_Witness ==
    /\ CalledAt("GetConfig")
    /\ Len(TransitionsOf(c)) = 2
    /\ TransitionsOf(c)[1].Block > CallHeight
    /\ TransitionsOf(c)[2].Block <= CallHeight
    /\ TransitionsOf(c)[2].EpochLength /= 0
    /\ TransitionsOf(c)[2].EpochLength /= c.Epoch
    /\ CallValue.Epoch = c.Epoch

----------------------------------------------------------------------------
(* properties of the proposer policy's registry *)

\* a goroutine is inside the resort pass of Use: it has read p.registry and
\* has not yet made its last SortValidators call
InResortPass(t) == pc[t] = "use_sort" /\ frame[t].i <= Len(frame[t].snap)

\* C3: the resort pass inside Use (its read of the registry and its
\* SortValidators calls) never overlaps in time with the registry write of a
\* RegisterValidatorSet or ClearRegistry call, nor with the resort pass of
\* another Use call.
C3_RegistryAccessExclusive ==
    \A t, u \in Threads :
        (t /= u /\ InResortPass(t))
            => /\ ~Storing(u)
               /\ ~InResortPass(u)

\* C4: whenever a call Use(f) returns, By is f and every validator set in
\* the registry at that moment has had SortValidators applied to it after By
\* was set to f, also when RegisterValidatorSet calls run concurrently.
C4_UseResortsEveryRegisteredSet ==
    \A t \in Threads :
        useRet[t].returned => (useRet[t].byIsF /\ useRet[t].resorted)

\* the goroutine inside the locked section of RegisterValidatorSet whose
\* store into p.registry is not yet complete
Registering(t) == pc[t] \in {"reg_store", "storing"} /\ frame[t].valSet /= 0

\* the goroutine inside the locked section of ClearRegistry whose store of
\* nil is not yet complete
Clearing(t) == pc[t] = "clr_store" \/ (pc[t] = "storing" /\ frame[t].valSet = 0)

\* C11: after any interleaving of concurrent RegisterValidatorSet and
\* ClearRegistry calls, the registry is exactly the sequence of the sets
\* passed to the RegisterValidatorSet calls that took the lock after the most
\* recent ClearRegistry, one entry per call, in lock-acquisition order;
\* while a registration is in progress the earlier entries are as they were;
\* the registry is empty right after ClearRegistry.
C11_RegistryIsLockOrderLog ==
    /\ (\A t \in Threads : ~Registering(t) /\ ~Clearing(t)) => registry = acquired
    /\ \A t \in Threads :
           Registering(t) => /\ acquired /= <<>>
                             /\ registry = SubSeq(acquired, 1, Len(acquired) - 1)
                             /\ acquired[Len(acquired)] = frame[t].valSet
    /\ \A t \in Threads :
           (pc[t] = "unlock" /\ frame[t].valSet = 0) => registry = <<>>

\* two goroutines have each registered a set, the second of them locking
\* first, and both calls have returned
C11_Witness ==
    /\ \A t \in Threads : pc[t] = "idle"
    /\ frame[1].valSet = 1
    /\ frame[2].valSet = 2
    /\ acquired = <<2, 1>>
    /\ registry = <<2, 1>>

\* what a caller can observe of a policy
Observable(pol) == [Id |-> pol.Id, By |-> pol.By, registry |-> pol.registry]

\* C13: after MarshalTOML of a policy p and UnmarshalTOML into an empty
\* policy q, q.Id equals p.Id and q.By is the address-string comparator
\* whatever function p was given through Use, and q then supports
\* RegisterValidatorSet, ClearRegistry and Use exactly as
\* NewProposerPolicy(p.Id) does, without failing.
C13_RestoredLikeFresh ==
    stage = "restored"
        => /\ restored.Id = source.Id
           /\ ops = 0 => restored.By = "ByString"
           /\ ~failed
           /\ Observable(restored) = Observable(fresh)

----------------------------------------------------------------------------
(* properties of View, Preprepare and Subject *)

\* C8: View.Cmp is a total order with sequence as primary key and round as
\* secondary key: Cmp(v,v) = 0; Cmp(v1,v2) = -Cmp(v2,v1); Cmp(v1,v2) = 0
\* exactly when rounds and sequences are equal; Cmp(v1,v2) < 0 and
\* Cmp(v2,v3) < 0 imply Cmp(v1,v3) < 0; a view with a smaller sequence
\* compares less than any view with a larger sequence, whatever the rounds.
C8_CmpTotalOrder ==
    cmp.called
        => /\ cmp.c11 = 0
           /\ cmp.c12 = -cmp.c21
           /\ cmp.c12 = 0 <=> (/\ views[1].Round = views[2].Round
                               /\ views[1].Sequence = views[2].Sequence)
           /\ (cmp.c12 < 0 /\ cmp.c23 < 0) => cmp.c13 < 0
           /\ views[1].Sequence[1] < views[2].Sequence[1] => cmp.c12 < 0

\* the smaller sequence carries the larger round, and the chain v1 < v2 < v3
C8_Witness ==
    /\ cmp.called
    /\ views[1].Sequence[1] < views[2].Sequence[1]
    /\ views[1].Round[1] > views[2].Round[1]
    /\ views[2].Sequence = views[3].Sequence
    /\ cmp.c12 = -1
    /\ cmp.c23 = -1
    /\ cmp.c13 = -1

RECURSIVE ItemsOf(_)
\* the encoded items of a list's content, in order
ItemsOf(b) ==
    IF b = <<>> \/ ReadItem(b).err /= "" THEN <<>>
    ELSE <<SubSeq(b, 1, Len(b) - Len(ReadItem(b).rest))>> \o ItemsOf(ReadItem(b).rest)

\* the record EncodeRLP is to write for a message: its fields in order
FieldsInOrder(m) ==
    CASE m.type = "View" ->
             <<EncBigInt(m.val.Round), EncBigInt(m.val.Sequence)>>
      [] m.type = "Preprepare" ->
             <<EncList(EncBigInt(m.val.View[1].Round) \o EncBigInt(m.val.View[1].Sequence)),
               Block_EncodeRLP(m.val.Proposal[1])>>
      [] m.type = "Subject" ->
             <<EncList(EncBigInt(m.val.View[1].Round) \o EncBigInt(m.val.View[1].Sequence)),
               EncString(m.val.Digest)>>

Intact == wire = EncodeRLP(msg)

\* C9: EncodeRLP writes View as the record [round, sequence], Subject as
\* [view, digest] and Preprepare as [view, proposal], in that order, and
\* DecodeRLP of that record yields a value equal field by field to the
\* original.
C9_EncodeDecodeRoundTrip ==
    /\ phase = "encoded"
           => /\ ReadItem(wire).err = ""
              /\ ReadItem(wire).kind = "List"
              /\ ReadItem(wire).rest = <<>>
              /\ ItemsOf(ReadItem(wire).content) = FieldsInOrder(msg)
    /\ (phase = "decoded" /\ Intact) => (err = "" /\ target = msg.val)

\* a View whose round and sequence differ, decoded into a used target
C9_Witness ==
    /\ phase = "decoded"
    /\ Intact
    /\ msg.type = "View"
    /\ msg.val.Round /= msg.val.Sequence
    /\ before = NewView(7, 9)
    /\ target = msg.val

IsStrictPrefix(a, b) == Len(a) < Len(b) /\ a = SubSeq(b, 1, Len(a))

\* whether the record on the wire decodes as a whole
UnderlyingError ==
    CASE msg.type = "View"       -> DecodeViewStruct(ReadItem(wire)).err
      [] msg.type = "Preprepare" -> DecodePreprepareStruct(ReadItem(wire)).err
      [] msg.type = "Subject"    -> DecodeSubjectStruct(ReadItem(wire)).err

\* C10: when the underlying decode of a View, Preprepare or Subject fails,
\* DecodeRLP returns that error and leaves every field of the target as it
\* was before the call; the target changes only when the whole record
\* decoded; a truncated encoding always fails.
C10_DecodeErrorLeavesTarget ==
    phase = "decoded"
        => /\ err = UnderlyingError
           /\ err /= "" => target = before
           /\ target /= before => err = ""
           /\ IsStrictPrefix(wire, EncodeRLP(msg)) => err /= ""

\* a damaged Subject whose view decodes and whose digest does not, decoded
\* into a used target
C10_Witness ==
    /\ phase = "decoded"
    /\ msg.type = "Subject"
    /\ ~Intact
    /\ ListFields(ReadItem(wire)).err = ""
    /\ DecodeViewPtr(Field(ListFields(ReadItem(wire)).fields, 1)).err = ""
    /\ err /= ""
    /\ before.View /= Nil
    /\ target = before

=============================================================================
